---- MODULE Spec2Model ----
(***************************************************************************)
(* Session orchestrator of the YouTube-Rewire extension: the background    *)
(* service worker (src/content.js lines 253-748) together with the one     *)
(* message the session worker sends back (src/content.js lines 218-248).   *)
(*                                                                         *)
(* The durable store is chrome.storage.local, the timer service is         *)
(* chrome.alarms plus setTimeout, an execution context is a browser tab.   *)
(* Every `await` of the source is a point where other handlers may run, so *)
(* a handler is one action per stretch of code between two awaits.         *)
(* Strings that the code builds and parses (run ids, alarm names) are      *)
(* sequences of one-character strings.                                     *)
(***************************************************************************)
EXTENDS Integers, Sequences, FiniteSets, TLC

VARIABLES
    now,        \* the clock (Date.now(), in milliseconds) when last read
    store,      \* chrome.storage.local: the keys the service worker uses
    alarms,     \* chrome.alarms: the registered alarms, {name, when}
    starts,     \* startBoost() invocations suspended at an await
    stops,      \* stopBoost() invocations suspended at an await
    handlers,   \* onAlarm handler invocations suspended at an await
    tabs,       \* open tabs (execution contexts), one per dispatched session
    callbacks,  \* tabs.sendMessage response callbacks not yet invoked
    appends,    \* appendLog() invocations suspended at an await
    results,    \* sessionResult handlers (third listener) past their appendLog
    timeouts,   \* setTimeout(triggerImmediateSession) callbacks pending
    nCalls,     \* control messages received so far
    nTabs,      \* tabs created so far (the id of the last one)
    nDone,      \* sessionResult messages received so far
    sent        \* the message the last step sent, if it sent one: the answer to
                \* a control message, or startSession to a worker

vars == <<now, store, alarms, starts, stops, handlers, tabs, callbacks,
          appends, results, timeouts, nCalls, nTabs, nDone, sent>>

----------------------------------------------------------------------------
(* Bounds of the model. *)

\* control messages (start, startImmediate, stop) over a behaviour
MaxCalls == 2
\* startBoost and stopBoost invocations in progress at a time
MaxInFlight == 2
\* tabs opened over a behaviour
MaxTabs == 3
\* sessionResult messages received over a behaviour (a worker whose tab is
\* closed, or that is still running, sends none)
MaxResults == 1
\* the clock advances millisecond by millisecond up to this reading, and
\* from then on jumps to the time a registered timer is due
MaxEarlyMs == 2
\* sessions per day of the runs the lifecycle model schedules (at most)
RunMaxSessions == 2
\* entries appended to the log one after another (more than CONFIG.maxLogs)
MaxAppends == 53
\* days of a schedule generated statement by statement
MaxDays == 2
\* days between the start of a run and a result
MaxElapsedDays == 9
\* keywords typed into the popup's field, one more than the cap of 20
MaxTyped == 21
\* tabs with a content script that receive a startSession message
MaxWorkers == 2

----------------------------------------------------------------------------
(* Configuration. *)

HourMs == 60 * 60 * 1000
DayMs == 24 * HourMs

CONFIG ==
    [ days              |-> 7,
      minSessionsPerDay |-> 3,
      maxSessionsPerDay |-> 5,
      minBetweenHours   |-> 2,
      maxBetweenHours   |-> 6,
      maxWatchSeconds   |-> 15 * 60,
      defaultKeywords   |-> <<"popular tech news", "trending music",
                              "funny cat videos">>,
      maxLogs           |-> 50 ]

\* The configuration of the runs of the lifecycle model: CONFIG with a
\* horizon of one day and 1..RunMaxSessions sessions in it, so that the set
\* of registered alarms stays small enough to explore every firing order.
RunConfig ==
    [CONFIG EXCEPT !.days = 1, !.minSessionsPerDay = 1,
                   !.maxSessionsPerDay = RunMaxSessions]

\* Values Math.random() * (max - min) + min takes in the lifecycle model:
\* the lower end of the interval (the offset into the day, the gap).
RandOffsets == {0}
RandGaps(cfg) == {cfg.minBetweenHours * HourMs}

\* message.keywords of a start or startImmediate message
KeywordInputs == {<<>>, <<"x">>}

Min(a, b) == IF a <= b THEN a ELSE b

----------------------------------------------------------------------------
(* Strings. *)

SessionPrefix == <<"s", "e", "s", "s", "i", "o", "n", "-">>
EndPrefix == <<"e", "n", "d", "-">>
RunPrefix == <<"r", "u", "n", "-">>
ImmediatePrefix == <<"i", "m", "m", "e", "d", "i", "a", "t", "e", "-">>
Dash == <<"-">>
DigitChars == <<"0", "1", "2", "3", "4", "5", "6", "7", "8", "9">>

\* `${n}` of a non-negative integer
RECURSIVE Decimal(_)
Decimal(n) ==
    IF n < 10 THEN <<DigitChars[n + 1]>>
    ELSE Decimal(n \div 10) \o <<DigitChars[(n % 10) + 1]>>

\* s.startsWith(p)
StartsWith(s, p) == Len(s) >= Len(p) /\ SubSeq(s, 1, Len(p)) = p

\* s.lastIndexOf(c), 0-based, -1 when c does not occur
LastIndexOf(s, c) ==
    LET at == {i \in 1..Len(s) : s[i] = c}
    IN  IF at = {} THEN -1 ELSE (CHOOSE i \in at : \A j \in at : j <= i) - 1

\* s.slice(b) for b >= 0
SliceFrom(s, b) == SubSeq(s, b + 1, Len(s))

\* s.slice(0, e); a negative e counts from the end
SliceTo(s, e) ==
    IF e >= 0 THEN SubSeq(s, 1, Min(e, Len(s))) ELSE SubSeq(s, 1, Len(s) + e)

\* `session-${runId}-${ts}`
SessionAlarmName(runId, ts) == SessionPrefix \o runId \o Dash \o Decimal(ts)

\* `end-${runId}`
EndAlarmName(runId) == EndPrefix \o runId

\* the run id the alarm handler reads out of a session alarm's name
AlarmRunId(name) ==
    LET raw == SliceFrom(name, 8)
        lastDash == LastIndexOf(raw, "-")
    IN  SliceTo(raw, lastDash)

----------------------------------------------------------------------------
(* The store.  A key that was never set reads as undefined: FALSE, 0, the   *)
(* empty sequence or "unset"; a key holding an array or an object, or null, *)
(* is a sequence of at most one element (<<>> is null or undefined).        *)

EmptyStore ==
    [ isRunning     |-> FALSE,
      runId         |-> <<>>,
      daysCompleted |-> 0,
      logs          |-> <<>>,
      keywords      |-> <<>>,
      startTs       |-> 0,
      immediateMode |-> "unset",
      currentRun    |-> <<>> ]

\* messages the service worker sends: sendResponse({status}) to a control
\* message, and {action: "startSession", params: {keyword, ...}} to a tab
Nothing == [to |-> "nobody", status |-> "none", keyword |-> ""]
Answer(action, status) == [to |-> action, status |-> status, keyword |-> ""]
StartSession(keyword) == [to |-> "worker", status |-> "startSession", keyword |-> keyword]

\* userKeywords && userKeywords.length ? userKeywords.slice(0, 20) : defaults
RunKeywords(userKeywords) ==
    IF Len(userKeywords) > 0
    THEN SubSeq(userKeywords, 1, Min(20, Len(userKeywords)))
    ELSE CONFIG.defaultKeywords

\* keywords[Math.floor(Math.random() * keywords.length)] || defaultKeywords[0]
KeywordChoices(keywords) ==
    IF Len(keywords) = 0 THEN {CONFIG.defaultKeywords[1]}
    ELSE {keywords[i] : i \in 1..Len(keywords)}

----------------------------------------------------------------------------
(* generateSchedule: every schedule the random draws can produce. *)

\* the sessions of one day from the cursor ts on: push ts, add a gap, repeat
RECURSIVE SessionsFrom(_, _, _)
SessionsFrom(cfg, ts, count) ==
    IF count = 0 THEN {<<>>}
    ELSE UNION { {<<ts>> \o rest : rest \in SessionsFrom(cfg, ts + gap, count - 1)}
                 : gap \in RandGaps(cfg) }

DaySchedules(cfg, startTs, day) ==
    UNION { UNION { SessionsFrom(cfg, startTs + day * DayMs + offset, sessionCount)
                    : offset \in RandOffsets }
            : sessionCount \in cfg.minSessionsPerDay..cfg.maxSessionsPerDay }

RECURSIVE SchedulesFrom(_, _, _)
SchedulesFrom(cfg, startTs, day) ==
    IF day >= cfg.days THEN {<<>>}
    ELSE { today \o later : today \in DaySchedules(cfg, startTs, day),
                            later \in SchedulesFrom(cfg, startTs, day + 1) }

generateSchedule(cfg, startTs) == SchedulesFrom(cfg, startTs, 0)

\* chrome.alarms.create(name, {when}): an alarm of the same name is replaced
AlarmsCreate(registered, name, when) ==
    {a \in registered : a.name # name} \cup {[name |-> name, when |-> when]}

\* the loop of scheduleAlarmsForRun: one alarm per timestamp of the schedule
RECURSIVE CreateSessionAlarms(_, _, _)
CreateSessionAlarms(registered, runId, schedule) ==
    IF schedule = <<>> THEN registered
    ELSE CreateSessionAlarms(
             AlarmsCreate(registered, SessionAlarmName(runId, Head(schedule)),
                          Head(schedule)),
             runId, Tail(schedule))

\* the alarms cancelRunAlarms(runId) clears out of those getAll returns
RunAlarmsToClear(all, runId) ==
    {a \in all : StartsWith(a.name, SessionPrefix \o runId \o Dash)}

\* when the end alarm of a run started at startTs is due
EndAlarmWhen(cfg, startTs) == startTs + cfg.days * DayMs + 60 * 1000

----------------------------------------------------------------------------
(* Initial state: a fresh installation, nothing stored, nothing registered. *)

Init ==
    /\ now = 1
    /\ store = EmptyStore
    /\ alarms = {}
    /\ starts = {}
    /\ stops = {}
    /\ handlers = {}
    /\ tabs = {}
    /\ callbacks = {}
    /\ appends = {}
    /\ results = {}
    /\ timeouts = {}
    /\ nCalls = 0
    /\ nTabs = 0
    /\ nDone = 0
    /\ sent = Nothing

\* a control message is taken while fewer than MaxInFlight invocations of
\* startBoost and stopBoost are suspended, up to MaxCalls messages in all
CallAllowed ==
    /\ nCalls < MaxCalls
    /\ Cardinality(starts) + Cardinality(stops) < MaxInFlight

\* The clock.  now is the last reading of it that had an effect: the value
\* of a Date.now(), or the time a timer was due when it fired.  A reading
\* is never less than the one before; between two readings a millisecond
\* may have passed (up to MaxEarlyMs), and a timer that fires moves the
\* clock on to the time it was due.  A setTimeout or a wait of the
\* dispatcher fires no sooner than its delay after the clock was last read.
ClockReadings == {now} \cup (IF now < MaxEarlyMs THEN {now + 1} ELSE {})

\* the clock when something due at `when` happens
ClockAt(when) == IF when > now THEN when ELSE now

----------------------------------------------------------------------------
(* startBoost(userKeywords), answered {status: "started"} when its promise  *)
(* resolves (the "start" branch of the message listener).                   *)

\* await getStore(); the isRunning check; setStore(...) is issued
StartBoostCall(userKeywords) ==
    /\ CallAllowed
    /\ nCalls' = nCalls + 1
    /\ IF store.isRunning
       THEN \* notification "ytboost-already"; return; the promise resolves
            /\ sent' = Answer("start", "started")
            /\ UNCHANGED <<now, starts>>
       ELSE \E startTs \in ClockReadings :    \* const startTs = Date.now()
            /\ now' = startTs
            /\ starts' = starts \cup
                  {[ id       |-> nCalls + 1,
                     pc       |-> "persist",
                     startTs  |-> startTs,
                     runId    |-> RunPrefix \o Decimal(startTs),
                     keywords |-> RunKeywords(userKeywords),
                     logs     |-> store.logs,
                     meta     |-> EmptyStore ]}
            /\ sent' = Nothing
    /\ UNCHANGED <<store, alarms, stops, handlers, tabs, callbacks,
                   appends, results, timeouts, nTabs, nDone>>

\* setStore({isRunning: true, ...}) lands; scheduleAlarmsForRun creates the
\* session alarms and issues its getStore()
StartBoostPersist(s) ==
    /\ s.pc = "persist"
    /\ store' = [store EXCEPT !.isRunning = TRUE,
                              !.runId = s.runId,
                              !.daysCompleted = 0,
                              !.logs = s.logs,
                              !.keywords = <<s.keywords>>,
                              !.startTs = s.startTs]
    /\ \E schedule \in generateSchedule(RunConfig, s.startTs) :
           alarms' = CreateSessionAlarms(alarms, s.runId, schedule)
    /\ starts' = (starts \ {s}) \cup {[s EXCEPT !.pc = "metaRead"]}
    /\ UNCHANGED <<now, stops, handlers, tabs, callbacks, appends, results,
                   timeouts, nCalls, nTabs, nDone>>
    /\ sent' = Nothing

\* const meta = await getStore()
StartBoostMetaRead(s) ==
    /\ s.pc = "metaRead"
    /\ starts' = (starts \ {s}) \cup {[s EXCEPT !.pc = "metaWrite", !.meta = store]}
    /\ UNCHANGED <<now, store, alarms, stops, handlers, tabs, callbacks,
                   appends, results, timeouts, nCalls, nTabs, nDone>>
    /\ sent' = Nothing

\* what setStore({...meta}) leaves in the store: every key meta holds is
\* written back; a key meta does not hold (immediateMode never set) is kept
WriteBack(current, meta) ==
    [meta EXCEPT !.immediateMode =
        IF meta.immediateMode = "unset" THEN current.immediateMode
        ELSE meta.immediateMode]

\* await setStore({...meta}) lands; the end alarm is created; the answer
StartBoostMetaWrite(s) ==
    /\ s.pc = "metaWrite"
    /\ store' = WriteBack(store,
                    [s.meta EXCEPT !.currentRun =
                        <<[id |-> s.runId, startTs |-> s.startTs,
                           keywords |-> s.keywords]>>])
    /\ alarms' = AlarmsCreate(alarms, EndAlarmName(s.runId),
                              EndAlarmWhen(RunConfig, s.startTs))
    /\ starts' = starts \ {s}
    /\ sent' = Answer("start", "started")
    /\ UNCHANGED <<now, stops, handlers, tabs, callbacks, appends, results,
                   timeouts, nCalls, nTabs, nDone>>

----------------------------------------------------------------------------
(* stopBoost() *)

\* the run id stopBoost cancels the alarms of, from the store it read:
\* (store.currentRun && store.currentRun.id) || store.runId
StopRunId(st) ==
    IF st.currentRun # <<>> /\ st.currentRun[1].id # <<>>
    THEN st.currentRun[1].id
    ELSE st.runId

\* await getStore(); cancelRunAlarms(runId) asks for all alarms; setStore(...)
\* is issued
StopBoostCall ==
    /\ CallAllowed
    /\ nCalls' = nCalls + 1
    /\ stops' = stops \cup
           {[ id         |-> nCalls + 1,
              currentRun |-> store.currentRun,
              runId      |-> store.runId,
              cancel     |-> StopRunId(store) # <<>>,
              persist    |-> TRUE ]}
    /\ UNCHANGED <<now, store, alarms, starts, handlers, tabs, callbacks,
                   appends, results, timeouts, nTabs, nDone>>
    /\ sent' = Nothing

\* what is left of a stopBoost invocation with some part of it done
StopsAfter(s, t) ==
    IF t.cancel \/ t.persist THEN (stops \ {s}) \cup {t} ELSE stops \ {s}

\* the chrome.alarms.getAll callback of cancelRunAlarms
StopBoostCancel(s) ==
    /\ s.cancel
    /\ alarms' = alarms \ RunAlarmsToClear(alarms, StopRunId(s))
    /\ stops' = StopsAfter(s, [s EXCEPT !.cancel = FALSE])
    /\ UNCHANGED <<now, store, starts, handlers, tabs, callbacks, appends,
                   results, timeouts, nCalls, nTabs, nDone>>
    /\ sent' = Nothing

\* setStore({isRunning: false, ...}) lands; the answer {status: "stopped"}
StopBoostPersist(s) ==
    /\ s.persist
    /\ store' = [store EXCEPT !.isRunning = FALSE,
                              !.runId = <<>>,
                              !.currentRun = <<>>,
                              !.immediateMode = "false"]
    /\ stops' = StopsAfter(s, [s EXCEPT !.persist = FALSE])
    /\ sent' = Answer("stop", "stopped")
    /\ UNCHANGED <<now, alarms, starts, handlers, tabs, callbacks, appends,
                   results, timeouts, nCalls, nTabs, nDone>>

\* stopBoost() for one more stop message than the MaxCalls: a stop that
\* arrives when no invocation of startBoost or stopBoost is suspended
StopBoostAgain ==
    /\ nCalls = MaxCalls
    /\ starts = {} /\ stops = {}
    /\ nCalls' = nCalls + 1
    /\ stops' = {[ id         |-> nCalls + 1,
                   currentRun |-> store.currentRun,
                   runId      |-> store.runId,
                   cancel     |-> StopRunId(store) # <<>>,
                   persist    |-> TRUE ]}
    /\ UNCHANGED <<now, store, alarms, starts, handlers, tabs, callbacks,
                   appends, results, timeouts, nTabs, nDone>>
    /\ sent' = Nothing

----------------------------------------------------------------------------
(* Dispatch: a tab is opened, content.js is injected, startSession is sent. *)

\* the least time a session of the worker takes: its first three sleeps
SessionMinMs == 2000 + 200 + 4000

\* chrome.tabs.create for a session: the tab, not yet injected.  keywords is
\* the list the dispatcher draws the session's keyword from; the draw is made
\* where the keyword is used, in the startSession message.
NewTab(id, mode, runId, keywords) ==
    [ id       |-> id,
      mode     |-> mode,
      runId    |-> runId,
      keywords |-> keywords,
      phase    |-> "opening" ]

\* triggerImmediateSession(keywords, runId): opens an active tab
ImmediateTab(id, keywords, runId) ==
    NewTab(id, "immediate", runId, keywords)

\* the time between chrome.tabs.create and the startSession message: the
\* 3000 ms wait and the 2000 ms setTimeout of triggerImmediateSession, none in
\* triggerSession
InjectWaitMs(mode) == IF mode = "immediate" THEN 3000 ELSE 0
SendWaitMs(mode) == IF mode = "immediate" THEN 2000 ELSE 0

\* startImmediateSessions(userKeywords): setStore(...) lands, the first
\* session is triggered, the answer is {status: "started"}
\* the same write without immediateMode
StartImmediateStoreNoMode(st, runId, keywords, startTs) ==
    [st EXCEPT !.isRunning = TRUE,
               !.runId = runId,
               !.keywords = <<keywords>>,
               !.startTs = startTs]

StartImmediateStore(st, runId, keywords, startTs) ==
    [st EXCEPT !.isRunning = TRUE,
               !.runId = runId,
               !.keywords = <<keywords>>,
               !.startTs = startTs,
               !.immediateMode = "true"]

StartImmediateSessions(userKeywords) ==
    /\ CallAllowed
    /\ nTabs < MaxTabs
    /\ nCalls' = nCalls + 1
    /\ nTabs' = nTabs + 1
    /\ \E time \in ClockReadings :    \* Date.now()
           LET keywords == RunKeywords(userKeywords)
               runId == ImmediatePrefix \o Decimal(time)
           IN  /\ now' = time
               /\ store' = StartImmediateStore(store, runId, keywords, time)
               /\ tabs' = tabs \cup {ImmediateTab(nTabs + 1, keywords, runId)}
    /\ sent' = Answer("startImmediate", "started")
    /\ UNCHANGED <<alarms, starts, stops, handlers, callbacks, appends,
                   results, timeouts, nDone>>

\* a setTimeout(() => triggerImmediateSession(keywords, runId), delay) fires
TimeoutFire(t) ==
    /\ nTabs < MaxTabs
    /\ nTabs' = nTabs + 1
    /\ now' = now + t.delay
    /\ timeouts' = timeouts \ {t}
    /\ tabs' = tabs \cup {ImmediateTab(nTabs + 1, t.keywords, t.runId)}
    /\ UNCHANGED <<store, alarms, starts, stops, handlers, callbacks,
                   appends, results, nCalls, nDone>>
    /\ sent' = Nothing

----------------------------------------------------------------------------
(* chrome.alarms.onAlarm *)

\* an alarm fires when it is due (once: it leaves the registry) and the
\* handler issues its getStore()
AlarmFire(a) ==
    /\ now' = ClockAt(a.when)
    /\ StartsWith(a.name, SessionPrefix) \/ StartsWith(a.name, EndPrefix)
    /\ alarms' = alarms \ {a}
    /\ handlers' = handlers \cup
           {[ name |-> a.name,
              pc   |-> IF StartsWith(a.name, SessionPrefix) THEN "check"
                       ELSE "end" ]}
    /\ UNCHANGED <<store, starts, stops, tabs, callbacks, appends,
                   results, timeouts, nCalls, nTabs, nDone>>
    /\ sent' = Nothing

\* the check without its comparison of run ids: if (!store.isRunning) return;
SessionAlarmIgnoredUnlessRunning(st, runId) == ~st.isRunning

\* if (!store.isRunning || (store.runId && store.runId !== runId)) return;
SessionAlarmIgnored(st, runId) ==
    \/ ~st.isRunning
    \/ (st.runId # <<>> /\ st.runId # runId)

\* the session branch after its getStore(): the run id check, and
\* triggerSession(alarm.name), which issues its own getStore()
SessionAlarmCheck(h) ==
    /\ h.pc = "check"
    /\ handlers' = IF SessionAlarmIgnored(store, AlarmRunId(h.name))
                   THEN handlers \ {h}
                   ELSE (handlers \ {h}) \cup {[h EXCEPT !.pc = "trigger"]}
    /\ UNCHANGED <<now, store, alarms, starts, stops, tabs, callbacks,
                   appends, results, timeouts, nCalls, nTabs, nDone>>
    /\ sent' = Nothing

\* the keywords triggerSession picks from: run.keywords || defaultKeywords
TriggerKeywords(st) ==
    IF st.currentRun # <<>> THEN st.currentRun[1].keywords
    ELSE CONFIG.defaultKeywords

\* the runId triggerSession hands to the worker: run.id
TriggerRunId(st) ==
    IF st.currentRun # <<>> THEN st.currentRun[1].id ELSE <<>>

\* triggerSession after its getStore(): opens a background tab, injected at once
TriggerSession(h) ==
    /\ h.pc = "trigger"
    /\ nTabs < MaxTabs
    /\ nTabs' = nTabs + 1
    /\ handlers' = handlers \ {h}
    /\ tabs' = tabs \cup
           {NewTab(nTabs + 1, "scheduled", TriggerRunId(store),
                   TriggerKeywords(store))}
    /\ UNCHANGED <<now, store, alarms, starts, stops, callbacks, appends,
                   results, timeouts, nCalls, nDone>>
    /\ sent' = Nothing

\* triggerSession after its getStore() when chrome.tabs.create fails: the
\* callback is called without a tab, `tab.id` throws before the try block
\* and the rejection of the async callback is dropped
TriggerSessionNoTab(h) ==
    /\ h.pc = "trigger"
    /\ handlers' = handlers \ {h}
    /\ UNCHANGED <<now, store, alarms, starts, stops, tabs, callbacks, appends,
                   results, timeouts, nCalls, nTabs, nDone>>
    /\ sent' = Nothing

\* the end branch: await getStore(); await setStore({isRunning: false, ...})
EndAlarmStore(st) ==
    [st EXCEPT !.isRunning = FALSE, !.currentRun = <<>>, !.runId = <<>>]

EndAlarmPersist(h) ==
    /\ h.pc = "end"
    /\ store' = EndAlarmStore(store)
    /\ handlers' = handlers \ {h}
    /\ UNCHANGED <<now, alarms, starts, stops, tabs, callbacks, appends,
                   results, timeouts, nCalls, nTabs, nDone>>
    /\ sent' = Nothing

----------------------------------------------------------------------------
(* appendLog(entry): getStore(), unshift, trim to maxLogs, setStore({logs}) *)

\* a log entry: who logged it (the first sessionResult listener, the third
\* one, or a dispatcher's catch block), for which tab, success or failure
LogEntry(src, tab, ok) == [src |-> src, tab |-> tab, ok |-> ok]

\* logs.unshift(entry) without the trim that follows it
AppendedLogsUntrimmed(logs, entry) == <<entry>> \o logs

\* logs.unshift(entry); if (logs.length > maxLogs) logs.length = maxLogs
AppendedLogs(logs, entry) ==
    LET longer == <<entry>> \o logs
    IN  IF Len(longer) > CONFIG.maxLogs THEN SubSeq(longer, 1, CONFIG.maxLogs)
        ELSE longer

\* a call of appendLog suspended at its getStore(); cont is what its caller
\* does once it resolves
NewAppend(entry, cont, runId, keywords) ==
    [ tab      |-> entry.tab,
      src      |-> entry.src,
      entry    |-> entry,
      pc       |-> "read",
      s        |-> EmptyStore,
      cont     |-> cont,
      runId    |-> runId,
      keywords |-> keywords ]

\* the entry of the first sessionResult listener, which carries the time of
\* its creation: {kind, message, details, time: Date.now()}
TimedEntry(src, ok, time) == [src |-> src, tab |-> 0, ok |-> ok, time |-> time]

\* appendLog(entry) is called with an entry made at the next millisecond,
\* the call before it having completed: entries appended one after another
AppendLogCall ==
    /\ appends = {}
    /\ now <= MaxAppends
    /\ now' = now + 1
    /\ appends' = {NewAppend(TimedEntry("listener1", TRUE, now + 1), "none", <<>>, <<>>)}
    /\ UNCHANGED <<store, alarms, starts, stops, handlers, tabs, callbacks,
                   results, timeouts, nCalls, nTabs, nDone>>
    /\ sent' = Nothing

\* setTimeout(() => triggerImmediateSession(keywords, runId), delay)
NewTimeout(tab, src, delay, runId, keywords) ==
    [ tab      |-> tab,
      src      |-> src,
      delay    |-> delay,
      runId    |-> runId,
      keywords |-> keywords ]

\* const s = await getStore(); const logs = s.logs || []
AppendLogRead(a) ==
    /\ a.pc = "read"
    /\ appends' = (appends \ {a}) \cup {[a EXCEPT !.pc = "write", !.s = store]}
    /\ UNCHANGED <<now, store, alarms, starts, stops, handlers, tabs,
                   callbacks, results, timeouts, nCalls, nTabs, nDone>>
    /\ sent' = Nothing

\* await setStore({logs}) lands and the caller goes on: the third listener
\* closes the tab and issues its getStore(); the catch block of
\* triggerImmediateSession sets its retry timer (30000 ms)
AppendLogWrite(a) ==
    /\ a.pc = "write"
    /\ store' = [store EXCEPT !.logs = AppendedLogs(a.s.logs, a.entry)]
    /\ appends' = appends \ {a}
    /\ tabs' = IF a.cont = "result" THEN {t \in tabs : t.id # a.tab} ELSE tabs
    /\ results' = IF a.cont = "result"
                  THEN results \cup {[tab |-> a.tab, pc |-> "read", daysCompleted |-> 0]}
                  ELSE results
    /\ timeouts' = IF a.cont = "retry"
                   THEN timeouts \cup
                            {NewTimeout(a.tab, "retry", 30000, a.runId, a.keywords)}
                   ELSE timeouts
    /\ UNCHANGED <<now, alarms, starts, stops, handlers, callbacks, nCalls,
                   nTabs, nDone>>
    /\ sent' = Nothing

\* the popup's "clear logs" button: chrome.storage.local.set({logs: []})
ClearLogs ==
    /\ store' = [store EXCEPT !.logs = <<>>]
    /\ UNCHANGED <<now, alarms, starts, stops, handlers, tabs, callbacks,
                   appends, results, timeouts, nCalls, nTabs, nDone>>
    /\ sent' = Nothing

----------------------------------------------------------------------------
(* The tab callback of triggerSession and triggerImmediateSession. *)

\* executeScript succeeds and startSession is sent with the keyword (2000 ms
\* later in immediate mode); the worker's result is due no sooner than its
\* sleeps take
InjectOk(t) ==
    /\ t.phase = "opening"
    /\ now' = now + InjectWaitMs(t.mode) + SendWaitMs(t.mode)
    /\ tabs' = (tabs \ {t}) \cup {[t EXCEPT !.phase = "running"]}
    /\ \E keyword \in KeywordChoices(t.keywords) : sent' = StartSession(keyword)
    /\ UNCHANGED <<store, alarms, starts, stops, handlers, callbacks,
                   appends, results, timeouts, nCalls, nTabs, nDone>>

\* what the catch block does after appendLog: nothing in scheduled mode, the
\* retry timer in immediate mode
FailureCont(mode) == IF mode = "immediate" THEN "retry" ELSE "none"

\* executeScript throws: the tab is removed and an error entry is logged
InjectFail(t) ==
    /\ t.phase = "opening"
    /\ now' = now + InjectWaitMs(t.mode)
    /\ tabs' = tabs \ {t}
    /\ appends' = appends \cup
           {NewAppend(LogEntry("dispatch", t.id, FALSE), FailureCont(t.mode),
                      t.runId, t.keywords)}
    /\ UNCHANGED <<store, alarms, starts, stops, handlers, callbacks,
                   results, timeouts, nCalls, nTabs, nDone>>
    /\ sent' = Nothing

----------------------------------------------------------------------------
(* The worker's sessionResult message and what follows it. *)

\* The message {type: "sessionResult", result} arrives: the first listener
\* calls appendLog, the third listener calls appendLog and goes on after it.
\* The worker then answers startSession, which (immediate mode, the only one
\* that passes a callback to tabs.sendMessage) will invoke the callback.
SessionResult(t, success) ==
    /\ t.phase = "running"
    /\ now' = now + SessionMinMs
    /\ nDone < MaxResults
    /\ nDone' = nDone + 1
    /\ tabs' = (tabs \ {t}) \cup {[t EXCEPT !.phase = "reported"]}
    /\ appends' = appends \cup
           { NewAppend(LogEntry("listener1", t.id, success), "none", <<>>, <<>>),
             NewAppend(LogEntry("listener3", t.id, success), "result", <<>>, <<>>) }
    /\ callbacks' = IF t.mode = "immediate"
                    THEN callbacks \cup
                             {[tab |-> t.id, runId |-> t.runId, keywords |-> t.keywords]}
                    ELSE callbacks
    /\ UNCHANGED <<store, alarms, starts, stops, handlers, results,
                   timeouts, nCalls, nTabs>>
    /\ sent' = Nothing

\* the tab of a running session is closed, or its worker dies, before a
\* sessionResult message is sent: no listener of the service worker runs;
\* the callback triggerImmediateSession gave to tabs.sendMessage is called
\* with chrome.runtime.lastError set, triggerSession gave none
WorkerLost(t) ==
    /\ t.phase = "running"
    /\ tabs' = tabs \ {t}
    /\ callbacks' = IF t.mode = "immediate"
                    THEN callbacks \cup
                             {[tab |-> t.id, runId |-> t.runId, keywords |-> t.keywords]}
                    ELSE callbacks
    /\ UNCHANGED <<now, store, alarms, starts, stops, handlers, appends,
                   results, timeouts, nCalls, nTabs, nDone>>
    /\ sent' = Nothing

\* the callback of tabs.sendMessage in triggerImmediateSession: the next
\* session of the loop, 30000 to 120000 ms later
SendMessageCallback(c) ==
    /\ callbacks' = callbacks \ {c}
    /\ timeouts' = timeouts \cup
           {NewTimeout(c.tab, "callback", 30000, c.runId, c.keywords)}
    /\ UNCHANGED <<now, store, alarms, starts, stops, handlers, tabs,
                   appends, results, nCalls, nTabs, nDone>>
    /\ sent' = Nothing

\* if (s.immediateMode && s.isRunning && s.keywords)
ResultReschedules(s) ==
    s.immediateMode = "true" /\ s.isRunning /\ s.keywords # <<>>

\* daysCompleted without its cap: daysPassed
ResultDaysPassed(cfg, s, time) ==
    IF s.startTs # 0
    THEN ((time - s.startTs) \div DayMs) + 1
    ELSE s.daysCompleted

\* daysCompleted as the third listener computes it from the store it read
ResultDaysCompleted(cfg, s, time) ==
    IF s.startTs # 0
    THEN Min(((time - s.startTs) \div DayMs) + 1, cfg.days)
    ELSE s.daysCompleted

\* the third listener after appendLog: const s = await getStore(); the next
\* session of an immediate run 5000 to 15000 ms later; setStore({daysCompleted})
SessionResultReadFor(cfg, r) ==
    /\ r.pc = "read"
    /\ timeouts' = IF ResultReschedules(store)
                   THEN timeouts \cup
                            {NewTimeout(r.tab, "listener", 5000, store.runId,
                                        store.keywords[1])}
                   ELSE timeouts
    /\ results' = (results \ {r}) \cup
           {[r EXCEPT !.pc = "write",
                      !.daysCompleted = ResultDaysCompleted(cfg, store, now)]}
    /\ UNCHANGED <<now, store, alarms, starts, stops, handlers, tabs,
                   callbacks, appends, nCalls, nTabs, nDone>>
    /\ sent' = Nothing

\* with the horizon of the runs of the lifecycle model
SessionResultRead(r) == SessionResultReadFor(RunConfig, r)

\* await setStore({daysCompleted}) lands
SessionResultWrite(r) ==
    /\ r.pc = "write"
    /\ store' = [store EXCEPT !.daysCompleted = r.daysCompleted]
    /\ results' = results \ {r}
    /\ UNCHANGED <<now, alarms, starts, stops, handlers, tabs, callbacks,
                   appends, timeouts, nCalls, nTabs, nDone>>
    /\ sent' = Nothing

----------------------------------------------------------------------------
(* The third listener's daysCompleted, computed with CONFIG.days, for the   *)
(* stores a result can find and the time that has passed since startTs.     *)

\* Date.now() - startTs when the result is handled: every half day up to
\* MaxElapsedDays, and the last millisecond of the first day
ElapsedDraws ==
    {k * (DayMs \div 2) : k \in 0..(2 * MaxElapsedDays)} \cup {DayMs - 1}

\* the store a result can find, for a first Date.now() of 1: a scheduled
\* run active (startBoost has returned), an immediate run active, a
\* scheduled run stopped, and nothing ever started
ResultStores ==
    LET scheduled ==
            [EmptyStore EXCEPT
                !.isRunning = TRUE,
                !.runId = RunPrefix \o Decimal(1),
                !.keywords = <<CONFIG.defaultKeywords>>,
                !.startTs = 1,
                !.currentRun = <<[id |-> RunPrefix \o Decimal(1), startTs |-> 1,
                                  keywords |-> CONFIG.defaultKeywords]>>]
    IN  { scheduled,
          StartImmediateStore(EmptyStore, ImmediatePrefix \o Decimal(1),
                              CONFIG.defaultKeywords, 1),
          [scheduled EXCEPT !.isRunning = FALSE, !.runId = <<>>,
                            !.currentRun = <<>>, !.immediateMode = "false"],
          EmptyStore }

\* a sessionResult has been logged by the third listener, which has issued
\* its getStore()
InitResult ==
    /\ \E st \in ResultStores : \E elapsed \in ElapsedDraws :
          /\ store = st
          /\ now = 1 + elapsed
    /\ results = {[tab |-> 1, pc |-> "read", daysCompleted |-> 0]}
    /\ alarms = {}
    /\ starts = {}
    /\ stops = {}
    /\ handlers = {}
    /\ tabs = {}
    /\ callbacks = {}
    /\ appends = {}
    /\ timeouts = {}
    /\ nCalls = 0
    /\ nTabs = 0
    /\ nDone = 0
    /\ sent = Nothing

NextResult ==
    \/ \E r \in results : SessionResultReadFor(CONFIG, r)
    \/ \E r \in results : SessionResultWrite(r)

SpecResult == InitResult /\ [][NextResult]_vars

----------------------------------------------------------------------------
(* generateSchedule(startTs), statement by statement.  An invocation is a   *)
(* record of starts: its parameters (cfg, startTs), its locals (day,        *)
(* sessionCount, s, ts, schedule) and its position pc.                      *)

\* the values of Math.random() the generator is run with, in eighths:
\* 0.125, 0.5 and 0.875
MathRandom == {1, 4, 7}

\* Math.floor(rand(min, max + 1)) with a ceiling for the floor
randIntCeil(min, max) == {min + ((max + 1 - min) * r + 7) \div 8 : r \in MathRandom}

\* Math.random() * (max - min) + min, rounded down to an integer (the
\* offsets and gaps of the schedule are whole milliseconds without rounding)
rand(min, max) == {min + ((max - min) * r) \div 8 : r \in MathRandom}

\* Math.floor(rand(min, max + 1))
randInt(min, max) == rand(min, max + 1)

\* the parameters generateSchedule reads from CONFIG: those of the source
\* and one session a day with a fixed gap, over 1..MaxDays days
ScheduleConfigs ==
    { [c EXCEPT !.days = d] :
        c \in {CONFIG, [CONFIG EXCEPT !.minSessionsPerDay = 1,
                                      !.maxSessionsPerDay = 1,
                                      !.maxBetweenHours = 2]},
        d \in 1..MaxDays }

\* const schedule = []; the day loop is entered with day = 0
InitSchedule ==
    /\ \E cfg \in ScheduleConfigs : \E startTs \in {1} :
          /\ now = startTs
          /\ starts = {[ pc           |-> "day",
                         cfg          |-> cfg,
                         startTs      |-> startTs,
                         day          |-> 0,
                         sessionCount |-> 0,
                         s            |-> 0,
                         ts           |-> 0,
                         schedule     |-> <<>> ]}
    /\ store = EmptyStore
    /\ alarms = {}
    /\ stops = {}
    /\ handlers = {}
    /\ tabs = {}
    /\ callbacks = {}
    /\ appends = {}
    /\ results = {}
    /\ timeouts = {}
    /\ nCalls = 0
    /\ nTabs = 0
    /\ nDone = 0
    /\ sent = Nothing

\* day < CONFIG.days: sessionCount = randInt(...); ts = startTs + day * 24h;
\* ts += rand(0, 6h); the session loop is entered with s = 0
ScheduleDay(g) ==
    /\ g.pc = "day"
    /\ g.day < g.cfg.days
    /\ \E sessionCount \in randInt(g.cfg.minSessionsPerDay, g.cfg.maxSessionsPerDay) :
       \E offset \in rand(0, 6 * HourMs) :
          starts' = (starts \ {g}) \cup
              {[g EXCEPT !.pc = "session",
                         !.sessionCount = sessionCount,
                         !.s = 0,
                         !.ts = g.startTs + g.day * DayMs + offset]}
    /\ UNCHANGED <<now, store, alarms, stops, handlers, tabs, callbacks,
                   appends, results, timeouts, nCalls, nTabs, nDone>>
    /\ sent' = Nothing

\* s < sessionCount: schedule.push(ts); ts += rand(min gap, max gap); s++
ScheduleSession(g) ==
    /\ g.pc = "session"
    /\ g.s < g.sessionCount
    /\ \E gap \in rand(g.cfg.minBetweenHours * HourMs,
                       g.cfg.maxBetweenHours * HourMs) :
          starts' = (starts \ {g}) \cup
              {[g EXCEPT !.schedule = Append(g.schedule, g.ts),
                         !.ts = g.ts + gap,
                         !.s = g.s + 1]}
    /\ UNCHANGED <<now, store, alarms, stops, handlers, tabs, callbacks,
                   appends, results, timeouts, nCalls, nTabs, nDone>>
    /\ sent' = Nothing

\* s = sessionCount: the session loop is left; day++
ScheduleDayDone(g) ==
    /\ g.pc = "session"
    /\ g.s >= g.sessionCount
    /\ starts' = (starts \ {g}) \cup {[g EXCEPT !.pc = "day", !.day = g.day + 1]}
    /\ UNCHANGED <<now, store, alarms, stops, handlers, tabs, callbacks,
                   appends, results, timeouts, nCalls, nTabs, nDone>>
    /\ sent' = Nothing

\* the loop of scheduleAlarmsForRun over the schedule generateSchedule
\* returned, for the run id startBoost made of startTs: `run-${startTs}`
ScheduleAlarms(g) ==
    /\ g.pc = "return"
    /\ alarms' = CreateSessionAlarms(alarms, RunPrefix \o Decimal(g.startTs),
                                     g.schedule)
    /\ starts' = (starts \ {g}) \cup {[g EXCEPT !.pc = "scheduled"]}
    /\ UNCHANGED <<now, store, stops, handlers, tabs, callbacks,
                   appends, results, timeouts, nCalls, nTabs, nDone>>
    /\ sent' = Nothing

\* startBoost after scheduleAlarmsForRun: the end alarm is created
ScheduleEndAlarm(g) ==
    /\ g.pc = "scheduled"
    /\ alarms' = AlarmsCreate(alarms, EndAlarmName(RunPrefix \o Decimal(g.startTs)),
                              EndAlarmWhen(g.cfg, g.startTs))
    /\ starts' = (starts \ {g}) \cup {[g EXCEPT !.pc = "started"]}
    /\ UNCHANGED <<now, store, stops, handlers, tabs, callbacks,
                   appends, results, timeouts, nCalls, nTabs, nDone>>
    /\ sent' = Nothing

\* day = CONFIG.days: return schedule
ScheduleReturn(g) ==
    /\ g.pc = "day"
    /\ g.day >= g.cfg.days
    /\ starts' = (starts \ {g}) \cup {[g EXCEPT !.pc = "return"]}
    /\ UNCHANGED <<now, store, alarms, stops, handlers, tabs, callbacks,
                   appends, results, timeouts, nCalls, nTabs, nDone>>
    /\ sent' = Nothing

NextSchedule ==
    \/ \E g \in starts : ScheduleDay(g)
    \/ \E g \in starts : ScheduleSession(g)
    \/ \E g \in starts : ScheduleDayDone(g)
    \/ \E g \in starts : ScheduleReturn(g)
    \/ \E g \in starts : ScheduleAlarms(g)
    \/ \E g \in starts : ScheduleEndAlarm(g)

SpecSchedule == InitSchedule /\ [][NextSchedule]_vars

----------------------------------------------------------------------------
(* Specifications.                                                          *)
(*                                                                          *)
(* Spec is the run manager with the timer service: the control messages,    *)
(* the alarms and their handlers, up to the tab a passing session alarm     *)
(* opens.  SpecDispatch is the session dispatcher of immediate mode with    *)
(* the result handling: startImmediate and stop, the tabs, the worker's     *)
(* results, the log and the timers of the loop.                             *)

Next ==
    \/ \E userKeywords \in KeywordInputs : StartBoostCall(userKeywords)
    \/ \E s \in starts : StartBoostPersist(s)
    \/ \E s \in starts : StartBoostMetaRead(s)
    \/ \E s \in starts : StartBoostMetaWrite(s)
    \/ \E userKeywords \in KeywordInputs : StartImmediateSessions(userKeywords)
    \/ StopBoostCall
    \/ \E s \in stops : StopBoostCancel(s)
    \/ \E s \in stops : StopBoostPersist(s)
    \/ \E a \in alarms : AlarmFire(a)
    \/ \E h \in handlers : SessionAlarmCheck(h)
    \/ \E h \in handlers : TriggerSession(h)
    \/ \E h \in handlers : EndAlarmPersist(h)

Spec == Init /\ [][Next]_vars

----------------------------------------------------------------------------
(* The content script: its startSession listener and runSession.  A record  *)
(* of `handlers` is one invocation of the listener in a tab.                *)

\* varyKeyword(keyword): one of the five variations
varyKeyword(keyword) ==
    { keyword, keyword \o " 2025", "beginner " \o keyword,
      keyword \o " tutorial", keyword \o " best" }

\* params.keyword of a startSession message
SessionKeywords == {"x", CONFIG.defaultKeywords[1]}

\* the awaited steps of runSession inside its try block, in order: the
\* search box, typing and submitting, the result links, watching the videos
SessionSteps == <<"searchInput", "type", "results", "watch">>

\* String(err) of an error thrown at a step
ErrorText(step) ==
    CASE step = "searchInput" -> "Error: Selector timeout"
      [] step = "results" -> "Error: No videos found in search results"
      [] OTHER -> "TypeError"

\* the result of a session that reports the keyword it searched for
SessionFailureUsedKeyword(keyword, usedKeyword, step) ==
    [success |-> FALSE, error |-> ErrorText(step), keyword |-> usedKeyword]

\* catch (err): return { success: false, error: String(err), keyword }
SessionFailure(keyword, usedKeyword, step) ==
    [success |-> FALSE, error |-> ErrorText(step), keyword |-> keyword]

\* return { success: true, keyword: usedKeyword, watchSeconds, videosWatched }
SessionSuccess(usedKeyword) ==
    [success |-> TRUE, error |-> "", keyword |-> usedKeyword]

\* chrome.runtime.sendMessage({ type: "sessionResult", result })
SessionResultMessage(result) ==
    [ to |-> "orchestrator", status |-> "sessionResult",
      keyword |-> result.keyword, success |-> result.success,
      error |-> result.error ]

\* the listeners of the content script in flight
Sessions == {h \in handlers : h.name = <<"startSession">>}

InitWorker == Init

\* a startSession message arrives in a freshly injected tab: the listener
\* waits for the load event unless document.readyState is "complete"
WorkerStartSession(keyword, complete) ==
    /\ nTabs < MaxWorkers
    /\ nTabs' = nTabs + 1
    /\ handlers' = handlers \cup
           {[ name        |-> <<"startSession">>,
              tab         |-> nTabs + 1,
              pc          |-> IF complete THEN "runSession" ELSE "load",
              keyword     |-> keyword,
              usedKeyword |-> "",
              step        |-> 0,
              thrown      |-> "",
              result      |-> <<>>,
              reported    |-> 0 ]}
    /\ sent' = Nothing
    /\ UNCHANGED <<now, store, alarms, starts, stops, tabs, callbacks,
                   appends, results, timeouts, nCalls, nDone>>

\* the load event
WorkerLoaded(h) ==
    /\ h.name = <<"startSession">>
    /\ h.pc = "load"
    /\ handlers' = (handlers \ {h}) \cup {[h EXCEPT !.pc = "runSession"]}
    /\ sent' = Nothing
    /\ UNCHANGED <<now, store, alarms, starts, stops, tabs, callbacks,
                   appends, results, timeouts, nCalls, nTabs, nDone>>

\* runSession(msg.params) is entered: const usedKeyword = varyKeyword(keyword)
WorkerRunSession(h) ==
    /\ h.name = <<"startSession">>
    /\ h.pc = "runSession"
    /\ \E usedKeyword \in varyKeyword(h.keyword) :
          handlers' = (handlers \ {h}) \cup
              {[h EXCEPT !.pc = "step", !.step = 1, !.usedKeyword = usedKeyword]}
    /\ sent' = Nothing
    /\ UNCHANGED <<now, store, alarms, starts, stops, tabs, callbacks,
                   appends, results, timeouts, nCalls, nTabs, nDone>>

\* a step of runSession completes or throws; a throw is caught by the catch
\* block of runSession, the last step returns the success
WorkerStep(h, ok) ==
    /\ h.name = <<"startSession">>
    /\ h.pc = "step"
    /\ handlers' = (handlers \ {h}) \cup
          { IF ~ok
            THEN [h EXCEPT !.pc = "report",
                           !.thrown = SessionSteps[h.step],
                           !.result = <<SessionFailure(h.keyword, h.usedKeyword,
                                                       SessionSteps[h.step])>>]
            ELSE IF h.step = Len(SessionSteps)
            THEN [h EXCEPT !.pc = "report",
                           !.result = <<SessionSuccess(h.usedKeyword)>>]
            ELSE [h EXCEPT !.step = h.step + 1] }
    /\ sent' = Nothing
    /\ UNCHANGED <<now, store, alarms, starts, stops, tabs, callbacks,
                   appends, results, timeouts, nCalls, nTabs, nDone>>

\* chrome.runtime.sendMessage({ type: "sessionResult", result })
WorkerReport(h) ==
    /\ h.name = <<"startSession">>
    /\ h.pc = "report"
    /\ sent' = SessionResultMessage(h.result[1])
    /\ handlers' = (handlers \ {h}) \cup
           {[h EXCEPT !.pc = "respond", !.reported = h.reported + 1]}
    /\ UNCHANGED <<now, store, alarms, starts, stops, tabs, callbacks,
                   appends, results, timeouts, nCalls, nTabs, nDone>>

\* sendResponse({ status: "done" })
WorkerRespond(h) ==
    /\ h.name = <<"startSession">>
    /\ h.pc = "respond"
    /\ sent' = Answer("startSession", "done")
    /\ handlers' = (handlers \ {h}) \cup {[h EXCEPT !.pc = "done"]}
    /\ UNCHANGED <<now, store, alarms, starts, stops, tabs, callbacks,
                   appends, results, timeouts, nCalls, nTabs, nDone>>

\* what the listener does once its message has arrived
WorkerProgress ==
    \/ \E h \in handlers : WorkerLoaded(h)
    \/ \E h \in handlers : WorkerRunSession(h)
    \/ \E h \in handlers : \E ok \in BOOLEAN : WorkerStep(h, ok)
    \/ \E h \in handlers : WorkerReport(h)
    \/ \E h \in handlers : WorkerRespond(h)

NextWorker ==
    \/ \E keyword \in SessionKeywords : \E complete \in BOOLEAN :
          WorkerStartSession(keyword, complete)
    \/ WorkerProgress

SpecWorker == InitWorker /\ [][NextWorker]_vars

\* the page's event loop runs every continuation that is ready: the load
\* event fires, every wait of runSession ends (waitForSelector has a timeout)
SpecWorkerLive == SpecWorker /\ WF_vars(WorkerProgress)

----------------------------------------------------------------------------
(* The popup's Start button: it parses the keywords field, writes the list  *)
(* to the store and sends the start message.                                *)

\* DEFAULT of the popup
PopupDefault == <<"popular tech news", "trending music", "funny cat videos">>

\* s.trim() on a sequence of characters
RECURSIVE Trim(_)
Trim(chars) ==
    IF chars = <<>> THEN <<>>
    ELSE IF Head(chars) = " " THEN Trim(Tail(chars))
    ELSE IF chars[Len(chars)] = " " THEN Trim(SubSeq(chars, 1, Len(chars) - 1))
    ELSE chars

\* s.split(",")
RECURSIVE Split(_)
Split(chars) ==
    IF \A i \in 1..Len(chars) : chars[i] # ","
    THEN <<chars>>
    ELSE LET i == CHOOSE k \in 1..Len(chars) :
                      chars[k] = "," /\ \A j \in 1..(k - 1) : chars[j] # ","
         IN  <<SubSeq(chars, 1, i - 1)>> \o Split(SubSeq(chars, i + 1, Len(chars)))

\* the string of a sequence of characters
RECURSIVE Join(_)
Join(chars) == IF chars = <<>> THEN "" ELSE Head(chars) \o Join(Tail(chars))

\* .map((s) => s.trim()).filter(Boolean), as strings
RECURSIVE TrimmedPieces(_)
TrimmedPieces(pieces) ==
    IF pieces = <<>> THEN <<>>
    ELSE LET piece == Trim(Head(pieces))
         IN  (IF piece = <<>> THEN <<>> ELSE <<Join(piece)>>)
                 \o TrimmedPieces(Tail(pieces))

\* kw of the click handler: raw ? raw.split(",").map(trim).filter(Boolean)
\* .slice(0, 20) : DEFAULT, for raw = the trimmed text of the field
PopupKeywords(text) ==
    LET raw == Trim(text)
    IN  IF raw = <<>> THEN PopupDefault
        ELSE LET kw == TrimmedPieces(Split(raw))
             IN  SubSeq(kw, 1, Min(20, Len(kw)))

\* the text "1,2,...,n"
RECURSIVE TypedText(_)
TypedText(n) ==
    IF n = 1 THEN Decimal(1) ELSE TypedText(n - 1) \o <<",">> \o Decimal(n)

\* the list of the keywords "1", ..., "n"
TypedList(n) == [i \in 1..n |-> Join(Decimal(i))]

\* texts of the keywords field: empty, blank, separators only, one keyword,
\* two keywords with blanks, and MaxTyped keywords
TextInputs ==
    { <<>>, <<" ">>, <<",">>, <<"a">>, <<" ", "a", " ", ",", ",", "b">>,
      TypedText(MaxTyped) }

\* msg.keywords of a start or startImmediate message of any sender
MessageKeywords == KeywordInputs \cup {TypedList(20), TypedList(MaxTyped)}

\* the Start button is enabled while the popup has not seen a run: the store
\* shows none, or the answer to an earlier click is still outstanding
StartButtonEnabled == ~store.isRunning \/ starts # {}

\* click on Start: chrome.storage.local.set({ keywords: kw }) lands and the
\* start message is sent
PopupStartClick(text) ==
    /\ CallAllowed
    /\ StartButtonEnabled
    /\ nCalls' = nCalls + 1
    /\ store' = [store EXCEPT !.keywords = <<PopupKeywords(text)>>]
    /\ starts' = starts \cup
           {[ id       |-> nCalls + 1,
              pc       |-> "click",
              startTs  |-> 0,
              runId    |-> <<>>,
              keywords |-> PopupKeywords(text),
              logs     |-> <<>>,
              meta     |-> EmptyStore ]}
    /\ sent' = Nothing
    /\ UNCHANGED <<now, alarms, stops, handlers, tabs, callbacks, appends,
                   results, timeouts, nTabs, nDone>>

\* the start message of a click arrives: startBoost(msg.keywords) up to its
\* setStore
StartBoostMessage(s) ==
    /\ s.pc = "click"
    /\ IF store.isRunning
       THEN /\ sent' = Answer("start", "started")
            /\ starts' = starts \ {s}
            /\ now' = now
       ELSE \E startTs \in ClockReadings :
            /\ now' = startTs
            /\ starts' = (starts \ {s}) \cup
                  {[s EXCEPT !.pc = "persist",
                             !.startTs = startTs,
                             !.runId = RunPrefix \o Decimal(startTs),
                             !.keywords = RunKeywords(s.keywords),
                             !.logs = store.logs]}
            /\ sent' = Nothing
    /\ UNCHANGED <<store, alarms, stops, handlers, tabs, callbacks,
                   appends, results, timeouts, nCalls, nTabs, nDone>>

\* the popup's clicks, the messages of other senders, and stop
NextKeywords ==
    \/ \E text \in TextInputs : PopupStartClick(text)
    \/ \E s \in starts : StartBoostMessage(s)
    \/ \E userKeywords \in MessageKeywords : StartBoostCall(userKeywords)
    \/ \E s \in starts : StartBoostPersist(s)
    \/ \E s \in starts : StartBoostMetaRead(s)
    \/ \E s \in starts : StartBoostMetaWrite(s)
    \/ \E userKeywords \in MessageKeywords : StartImmediateSessions(userKeywords)
    \/ StopBoostCall
    \/ \E s \in stops : StopBoostCancel(s)
    \/ \E s \in stops : StopBoostPersist(s)

SpecKeywords == Init /\ [][NextKeywords]_vars

----------------------------------------------------------------------------
(* The generateKeywords branch of the control listener.  The handler reads  *)
(* the stored apiKey, calls the language API (callGeminiForKeywords, one    *)
(* fetch and a second one if the first is not ok) and answers the popup.    *)

\* msg.topic of a generateKeywords message
TopicInputs == {<<>>, <<"t">>}

\* the positions of a generateKeywords handler: awaiting getStore(["apiKey"]),
\* awaiting the first fetch, awaiting the second fetch, awaiting res.json()
GeneratePcs == {"apiKey", "fetch", "refetch", "parse"}

\* what a fetch of callGeminiForKeywords does: a response with res.ok, a
\* response without it, a rejected promise (network failure)
FetchOutcomes == {"ok", "notOk", "throws"}

\* what follows a response with res.ok: the keywords, or a thrown error (a
\* body that is not JSON, "Could not parse response")
GeminiOutcomes == {"keywords", "error"}

\* the POST request to the language API
Fetch == [to |-> "upstream", status |-> "generateText", keyword |-> ""]

\* the reply that stores the keywords it returns as the keywords of the run
GenerateKeywordsReplyStoring(h) ==
    /\ h.pc = "parse"
    /\ handlers' = handlers \ {h}
    /\ \E outcome \in GeminiOutcomes :
          /\ sent' = Answer("generateKeywords", outcome)
          /\ store' = IF outcome = "keywords"
                      THEN [store EXCEPT !.keywords = <<<<"t">>>>]
                      ELSE store
    /\ UNCHANGED <<now, alarms, starts, stops, tabs, callbacks, appends,
                   results, timeouts, nCalls, nTabs, nDone>>

\* msg.action === "generateKeywords": without a topic the error is answered
\* at once; the popup keeps its button disabled until the answer
GenerateKeywordsCall(topic) ==
    /\ \A h \in handlers : h.pc \notin GeneratePcs
    /\ IF Len(topic) = 0
       THEN /\ sent' = Answer("generateKeywords", "error")
            /\ handlers' = handlers
       ELSE /\ sent' = Nothing
            /\ handlers' = handlers \cup
                   {[name |-> <<>>, pc |-> "apiKey", fetches |-> 0]}
    /\ UNCHANGED <<now, store, alarms, starts, stops, tabs, callbacks,
                   appends, results, timeouts, nCalls, nTabs, nDone>>

\* const s = await getStore(["apiKey"]); if (!apiKey) the error is answered,
\* else callGeminiForKeywords issues its first fetch (Bearer token)
GenerateKeywordsKey(h, apiKey) ==
    /\ h.pc = "apiKey"
    /\ IF apiKey
       THEN /\ sent' = Fetch
            /\ handlers' = (handlers \ {h}) \cup
                   {[h EXCEPT !.pc = "fetch", !.fetches = h.fetches + 1]}
       ELSE /\ sent' = Answer("generateKeywords", "error")
            /\ handlers' = handlers \ {h}
    /\ UNCHANGED <<now, store, alarms, starts, stops, tabs, callbacks,
                   appends, results, timeouts, nCalls, nTabs, nDone>>

\* the first fetch settles: if (!res.ok) the second fetch (?key=) is issued;
\* a rejected fetch is caught by the handler, which answers the error
GenerateKeywordsFetched(h, outcome) ==
    /\ h.pc = "fetch"
    /\ CASE outcome = "ok" ->
              /\ sent' = Nothing
              /\ handlers' = (handlers \ {h}) \cup {[h EXCEPT !.pc = "parse"]}
         [] outcome = "notOk" ->
              /\ sent' = Fetch
              /\ handlers' = (handlers \ {h}) \cup
                     {[h EXCEPT !.pc = "refetch", !.fetches = h.fetches + 1]}
         [] OTHER ->
              /\ sent' = Answer("generateKeywords", "error")
              /\ handlers' = handlers \ {h}
    /\ UNCHANGED <<now, store, alarms, starts, stops, tabs, callbacks,
                   appends, results, timeouts, nCalls, nTabs, nDone>>

\* the second fetch settles: if (!res.ok) throw new Error("API error: ...")
GenerateKeywordsRefetched(h, outcome) ==
    /\ h.pc = "refetch"
    /\ IF outcome = "ok"
       THEN /\ sent' = Nothing
            /\ handlers' = (handlers \ {h}) \cup {[h EXCEPT !.pc = "parse"]}
       ELSE /\ sent' = Answer("generateKeywords", "error")
            /\ handlers' = handlers \ {h}
    /\ UNCHANGED <<now, store, alarms, starts, stops, tabs, callbacks,
                   appends, results, timeouts, nCalls, nTabs, nDone>>

\* res.json() and the extraction of the keywords return or throw:
\* sendResponse either way
GenerateKeywordsReply(h) ==
    /\ h.pc = "parse"
    /\ handlers' = handlers \ {h}
    /\ \E outcome \in GeminiOutcomes : sent' = Answer("generateKeywords", outcome)
    /\ UNCHANGED <<now, store, alarms, starts, stops, tabs, callbacks,
                   appends, results, timeouts, nCalls, nTabs, nDone>>

\* the control messages (start, startImmediate, stop) with generateKeywords
\* requests
NextSuggest ==
    \/ \E userKeywords \in KeywordInputs : StartBoostCall(userKeywords)
    \/ \E s \in starts : StartBoostPersist(s)
    \/ \E s \in starts : StartBoostMetaRead(s)
    \/ \E s \in starts : StartBoostMetaWrite(s)
    \/ \E userKeywords \in KeywordInputs : StartImmediateSessions(userKeywords)
    \/ StopBoostCall
    \/ \E s \in stops : StopBoostCancel(s)
    \/ \E s \in stops : StopBoostPersist(s)
    \/ \E topic \in TopicInputs : GenerateKeywordsCall(topic)
    \/ \E h \in handlers : \E apiKey \in BOOLEAN : GenerateKeywordsKey(h, apiKey)
    \/ \E h \in handlers : \E outcome \in FetchOutcomes :
          GenerateKeywordsFetched(h, outcome)
    \/ \E h \in handlers : \E outcome \in FetchOutcomes :
          GenerateKeywordsRefetched(h, outcome)
    \/ \E h \in handlers : GenerateKeywordsReply(h)

SpecSuggest == Init /\ [][NextSuggest]_vars

NextDispatch ==
    \/ \E userKeywords \in KeywordInputs : StartImmediateSessions(userKeywords)
    \/ StopBoostCall
    \/ \E s \in stops : StopBoostCancel(s)
    \/ \E s \in stops : StopBoostPersist(s)
    \/ \E t \in timeouts : TimeoutFire(t)
    \/ \E t \in tabs : InjectOk(t)
    \/ \E t \in tabs : InjectFail(t)
    \/ \E t \in tabs : \E success \in BOOLEAN : SessionResult(t, success)
    \/ \E c \in callbacks : SendMessageCallback(c)
    \/ \E a \in appends : AppendLogRead(a)
    \/ \E a \in appends : AppendLogWrite(a)
    \/ \E r \in results : SessionResultRead(r)
    \/ \E r \in results : SessionResultWrite(r)

SpecDispatch == Init /\ [][NextDispatch]_vars

\* start messages only: every interleaving of MaxCalls startBoost calls
NextStarts ==
    \/ \E userKeywords \in KeywordInputs : StartBoostCall(userKeywords)
    \/ \E s \in starts : StartBoostPersist(s)
    \/ \E s \in starts : StartBoostMetaRead(s)
    \/ \E s \in starts : StartBoostMetaWrite(s)

SpecStarts == Init /\ [][NextStarts]_vars

\* the run ids in the names of the registered alarms: session-<runId>-<ts>
\* and end-<runId>
AlarmRunIds ==
    { IF StartsWith(a.name, SessionPrefix) THEN AlarmRunId(a.name)
      ELSE SubSeq(a.name, Len(EndPrefix) + 1, Len(a.name)) : a \in alarms }

\* start and stop messages only, no alarm fires
NextStartStop ==
    \/ \E userKeywords \in KeywordInputs : StartBoostCall(userKeywords)
    \/ \E s \in starts : StartBoostPersist(s)
    \/ \E s \in starts : StartBoostMetaRead(s)
    \/ \E s \in starts : StartBoostMetaWrite(s)
    \/ StopBoostCall
    \/ \E s \in stops : StopBoostCancel(s)
    \/ \E s \in stops : StopBoostPersist(s)

SpecStartStop == Init /\ [][NextStartStop]_vars

\* the lifecycle with a last stop message after the other control messages
NextStop ==
    \/ \E userKeywords \in KeywordInputs : StartBoostCall(userKeywords)
    \/ \E s \in starts : StartBoostPersist(s)
    \/ \E s \in starts : StartBoostMetaRead(s)
    \/ \E s \in starts : StartBoostMetaWrite(s)
    \/ \E userKeywords \in KeywordInputs : StartImmediateSessions(userKeywords)
    \/ StopBoostCall
    \/ StopBoostAgain
    \/ \E s \in stops : StopBoostCancel(s)
    \/ \E s \in stops : StopBoostPersist(s)
    \/ \E a \in alarms : AlarmFire(a)
    \/ \E h \in handlers : SessionAlarmCheck(h)
    \/ \E h \in handlers : TriggerSession(h)
    \/ \E h \in handlers : EndAlarmPersist(h)

SpecStop == Init /\ [][NextStop]_vars

\* scheduled mode from the start of one run to the dispatch of its
\* sessions: the alarms, their handlers, the tab with its injection, the
\* log of a failure, and a worker that is lost before it reports
NextScheduled ==
    \/ \E userKeywords \in KeywordInputs :
          nCalls = 0 /\ StartBoostCall(userKeywords)
    \/ \E s \in starts : StartBoostPersist(s)
    \/ \E s \in starts : StartBoostMetaRead(s)
    \/ \E s \in starts : StartBoostMetaWrite(s)
    \/ \E a \in alarms : AlarmFire(a)
    \/ \E h \in handlers : SessionAlarmCheck(h)
    \/ \E h \in handlers : TriggerSession(h)
    \/ \E h \in handlers : TriggerSessionNoTab(h)
    \/ \E h \in handlers : EndAlarmPersist(h)
    \/ \E t \in tabs : InjectOk(t)
    \/ \E t \in tabs : InjectFail(t)
    \/ \E t \in tabs : WorkerLost(t)
    \/ \E a \in appends : AppendLogRead(a)
    \/ \E a \in appends : AppendLogWrite(a)

SpecScheduled == Init /\ [][NextScheduled]_vars

\* appendLog on its own: entries appended one after another to the empty log
NextAppend ==
    \/ AppendLogCall
    \/ \E a \in appends : AppendLogRead(a)
    \/ \E a \in appends : AppendLogWrite(a)

SpecAppend == Init /\ [][NextAppend]_vars

\* the log after n entries were appended one after another to the empty
\* log, the k-th made at time k + 1: what SpecAppend reaches
LogAfter(n) ==
    [i \in 1..Min(n, CONFIG.maxLogs) |-> TimedEntry("listener1", TRUE, n + 2 - i)]

\* a log at its cap, two appends short of MaxAppends; nothing else is
\* stored or registered
InitLog ==
    /\ now = MaxAppends - 1
    /\ store = [EmptyStore EXCEPT !.logs = LogAfter(MaxAppends - 2)]
    /\ alarms = {}
    /\ starts = {}
    /\ stops = {}
    /\ handlers = {}
    /\ tabs = {}
    /\ callbacks = {}
    /\ appends = {}
    /\ results = {}
    /\ timeouts = {}
    /\ nCalls = 0
    /\ nTabs = 0
    /\ nDone = 0
    /\ sent = Nothing

\* the writers of the log together: appendLog called again and again, the
\* popup's clear-logs, and the control messages with the end alarm
NextLog ==
    \/ AppendLogCall
    \/ \E a \in appends : AppendLogRead(a)
    \/ \E a \in appends : AppendLogWrite(a)
    \/ ClearLogs
    \/ \E userKeywords \in KeywordInputs : StartBoostCall(userKeywords)
    \/ \E s \in starts : StartBoostPersist(s)
    \/ \E s \in starts : StartBoostMetaRead(s)
    \/ \E s \in starts : StartBoostMetaWrite(s)
    \/ \E userKeywords \in KeywordInputs : StartImmediateSessions(userKeywords)
    \/ StopBoostCall
    \/ \E s \in stops : StopBoostCancel(s)
    \/ \E s \in stops : StopBoostPersist(s)
    \/ \E a \in alarms : StartsWith(a.name, EndPrefix) /\ AlarmFire(a)
    \/ \E h \in handlers : EndAlarmPersist(h)

SpecLog == InitLog /\ [][NextLog]_vars

----------------------------------------------------------------------------
(* Properties of the run lifecycle (under Spec).                            *)

\* C1: a start() taken while a run is active fails: it is not answered as a
\* successful start ({status: "started"}), it registers no timer, and it
\* leaves isRunning true and the persisted runId as they were.
C1_SecondStartFails ==
    [][\A userKeywords \in KeywordInputs :
          (store.isRunning /\ StartBoostCall(userKeywords))
              => /\ sent'.status # "started"
                 /\ alarms' = alarms
                 /\ store'.isRunning
                 /\ store'.runId = store.runId]_vars

\* C2: a startImmediate() taken while a run is active fails like start():
\* it is not answered as a successful start, it leaves the persisted runId,
\* keywords, startTs and mode as they were and opens no tab.
C2_StartImmediateWhileRunningFails ==
    [][\A userKeywords \in KeywordInputs :
          (store.isRunning /\ StartImmediateSessions(userKeywords))
              => /\ sent'.status # "started"
                 /\ store'.runId = store.runId
                 /\ store'.keywords = store.keywords
                 /\ store'.startTs = store.startTs
                 /\ store'.immediateMode = store.immediateMode
                 /\ tabs' = tabs]_vars

\* C4: when a stop() taken on a fully started scheduled run (the store it
\* read held the run as currentRun) has done all it does, no alarm of that
\* run is registered any more: no session alarm and no end alarm.
C4_StopCancelsEveryRunTimer ==
    [][\A s \in stops :
          ( /\ StopBoostCancel(s) \/ StopBoostPersist(s)
            /\ \A t \in stops' : t.id # s.id
            /\ s.currentRun # <<>> )
              => \A a \in alarms' :
                    /\ a.name # EndAlarmName(StopRunId(s))
                    /\ ~StartsWith(a.name, SessionPrefix \o StopRunId(s) \o Dash)]_vars

\* C5: the end alarm of a run whose id is not the persisted runId is ignored
\* when its handler runs: the store is left as it was.
C5_StaleEndTimerIgnored ==
    [][\A h \in handlers :
          (EndAlarmPersist(h) /\ SliceFrom(h.name, Len(EndPrefix)) # store.runId)
              => store' = store]_vars

\* C6: a session alarm handled when no run is active, or when the run id in
\* its name is not the persisted runId, opens no tab, goes on to no
\* triggerSession and leaves the store as it was.
C6_StaleSessionTimerIgnored ==
    [][\A h \in handlers :
          ( /\ SessionAlarmCheck(h)
            /\ ~store.isRunning \/ store.runId # AlarmRunId(h.name) )
              => /\ handlers' = handlers \ {h}
                 /\ tabs' = tabs
                 /\ nTabs' = nTabs
                 /\ store' = store]_vars

\* a session alarm of a scheduled run has fired (the clock is at the run's
\* second session, the run's end alarm is still registered) while another
\* run, an immediate one, was the persisted run, and it was dropped: no
\* handler is left and the only tab is the one startImmediate opened
C6_Witness ==
    /\ store.isRunning
    /\ StartsWith(store.runId, ImmediatePrefix)
    /\ handlers = {}
    /\ starts = {}
    /\ nTabs = 1
    /\ \E a \in alarms :
          /\ StartsWith(a.name, EndPrefix)
          /\ now = a.when - EndAlarmWhen(RunConfig, 0)
                          + RunConfig.minBetweenHours * HourMs

----------------------------------------------------------------------------
(* Properties of the immediate-mode dispatcher (under SpecDispatch).        *)

\* C3: every tab that is opened for a session is opened for the run that is
\* the persisted run at that moment, and that run is running.
C3_DispatchOnlyForPersistedRun ==
    [][nTabs' # nTabs
          => \A t \in tabs' :
                t.id = nTabs' => (store'.isRunning /\ t.runId = store'.runId)]_vars

\* C7: the third sessionResult listener does not touch the log for a result
\* of a run that was not the persisted run when the listener read the store.
C7_StaleResultNotLogged ==
    [][\A a \in appends :
          ( /\ AppendLogWrite(a)
            /\ a.cont = "result"
            /\ \E t \in tabs : t.id = a.tab /\ t.runId # a.s.runId )
              => store'.logs = store.logs]_vars

\* C8: in immediate mode no timer of the loop opens a tab while isRunning
\* is persisted false.
C8_NoDispatchAfterStop ==
    [][\A t \in timeouts : ~(TimeoutFire(t) /\ ~store.isRunning)]_vars

\* C9: while the run is active a completed session (a tab that reported its
\* result) has at most one next session scheduled for it.
C9_OneRescheduleForEachCompletion ==
    store.isRunning
        => \A t1, t2 \in timeouts :
              (t1.tab = t2.tab /\ t1.src # "retry" /\ t2.src # "retry")
                  => t1 = t2

\* C10: in an immediate run started by the only control message received,
\* at no time have two tabs a session to run or running: at most one worker
\* is in flight.
C10_OneWorkerInFlight ==
    nCalls = 1
        => \A t1, t2 \in tabs :
              ( /\ t1.mode = "immediate" /\ t2.mode = "immediate"
                /\ t1.runId = t2.runId
                /\ t1.phase # "reported" /\ t2.phase # "reported" )
                  => t1 = t2

\* C11: while the only run ever started is active, the log holds at most one
\* entry for the result of a session (a tab): a result message appends one
\* entry, not two.
C11_OneEntryForEachResult ==
    (nCalls = 1 /\ store.isRunning)
        => \A i, j \in 1..Len(store.logs) :
              ( /\ store.logs[i].tab = store.logs[j].tab
                /\ store.logs[i].src # "dispatch"
                /\ store.logs[j].src # "dispatch" )
                  => i = j

\* C12: the write of an appendLog loses no entry: every entry the log holds
\* when the write lands (the log being below its cap) is in the log after it.
C12_AppendLosesNoEntry ==
    [][\A a \in appends :
          (AppendLogWrite(a) /\ Len(store.logs) < CONFIG.maxLogs)
              => \A i \in 1..Len(store.logs) :
                    \E j \in 1..Len(store'.logs) :
                        store'.logs[j] = store.logs[i]]_vars

----------------------------------------------------------------------------
(* Properties of the log (under SpecAppend).                                *)

\* C13: after n entries were appended one after another to the empty log
\* (the n-th made at time n + 1), the log holds the last min(n, maxLogs) of
\* them, newest first.
C13_LogKeepsLastEntries ==
    appends = {}
        => /\ Len(store.logs) = Min(now - 1, CONFIG.maxLogs)
           /\ \A i \in 1..Len(store.logs) :
                  store.logs[i] = TimedEntry("listener1", TRUE, now - i + 1)

\* more than maxLogs entries were appended: the oldest ones are evicted
C13_Witness ==
    /\ appends = {}
    /\ now - 1 = CONFIG.maxLogs + 2
    /\ Len(store.logs) = CONFIG.maxLogs
    /\ store.logs[CONFIG.maxLogs].time = 4

----------------------------------------------------------------------------
(* Properties of the log with its other writers (under SpecLog).            *)

\* C14: the persisted log never holds more than maxLogs entries.
C14_LogWithinCap == Len(store.logs) <= CONFIG.maxLogs

\* a run is active and the log, at its cap, holds an entry appended to the
\* full log: an older entry was evicted for it
C14_Witness ==
    /\ store.isRunning
    /\ appends = {}
    /\ Len(store.logs) = CONFIG.maxLogs
    /\ store.logs[1].time = MaxAppends + 1

\* C15: start, startImmediate, stop and the end alarm's handler leave every
\* entry of the log in place: an entry the log holds before a step of theirs
\* is in the log after it.
C15_RunControlKeepsLog ==
    [][( \/ \E userKeywords \in KeywordInputs : StartBoostCall(userKeywords)
         \/ \E s \in starts : StartBoostPersist(s)
         \/ \E s \in starts : StartBoostMetaRead(s)
         \/ \E s \in starts : StartBoostMetaWrite(s)
         \/ \E userKeywords \in KeywordInputs : StartImmediateSessions(userKeywords)
         \/ StopBoostCall
         \/ \E s \in stops : StopBoostCancel(s)
         \/ \E s \in stops : StopBoostPersist(s)
         \/ \E h \in handlers : EndAlarmPersist(h) )
          => \A i \in 1..Len(store.logs) :
                \E j \in 1..Len(store'.logs) : store'.logs[j] = store.logs[i]]_vars

----------------------------------------------------------------------------
(* Properties of a stopBoost after other control messages (under SpecStop). *)

\* C16: a stop taken when no run is active (isRunning false, runId null) is
\* a no-op: its cancelRunAlarms removes no alarm and creates none, and its
\* write leaves isRunning false, runId null and the log as they are.
C16_StopWithNoRunIsNoOp ==
    [][\A s \in stops :
          (s.id > MaxCalls /\ s.runId = <<>> /\ ~store.isRunning)
              => /\ StopBoostCancel(s) => alarms' = alarms
                 /\ StopBoostPersist(s)
                       => /\ store'.isRunning = store.isRunning
                          /\ store'.runId = store.runId
                          /\ store'.logs = store.logs
                          /\ alarms' = alarms]_vars

\* C17: stopBoost cancels no alarm of a run other than the active one: an
\* alarm its cancelRunAlarms clears is a session alarm whose run id is the
\* runId the store held when stop was called.
C17_StopLeavesOtherRunsAlarms ==
    [][\A s \in stops :
          StopBoostCancel(s)
              => \A a \in alarms \ alarms' :
                    /\ StartsWith(a.name, SessionPrefix)
                    /\ AlarmRunId(a.name) = s.runId]_vars

----------------------------------------------------------------------------
(* Properties of the end alarm (under Spec).                                *)

\* C18: the handler of the end alarm of the active run leaves isRunning
\* false and runId null, whatever the store holds besides; and once the end
\* alarm of a run has been handled (the run's startBoost has returned, its
\* end alarm is no longer registered and no handler of it is suspended) a
\* session alarm of that run is dropped at its check, and no triggerSession
\* of that run opens a tab.
C18_EndAlarmEndsRun ==
    [][\A h \in handlers :
          LET runId == AlarmRunId(h.name)
              ended == /\ \A s \in starts : s.runId # runId
                       /\ \A a \in alarms : a.name # EndAlarmName(runId)
                       /\ \A e \in handlers : e.name # EndAlarmName(runId)
          IN  /\ ( /\ EndAlarmPersist(h)
                   /\ store.isRunning
                   /\ h.name = EndAlarmName(store.runId) )
                     => (~store'.isRunning /\ store'.runId = <<>>)
              /\ (SessionAlarmCheck(h) /\ ended) => handlers' = handlers \ {h}
              /\ TriggerSession(h) => ~ended]_vars

----------------------------------------------------------------------------
(* Properties of generateSchedule (under SpecSchedule).                     *)

\* C19: the schedule generateSchedule returns is non-decreasing over its
\* whole length, across day boundaries as well as within a day.
C19_ScheduleNonDecreasing ==
    \A g \in starts :
        g.pc = "return"
            => \A i \in 2..Len(g.schedule) : g.schedule[i] >= g.schedule[i - 1]

\* C20: while the sessions of day d are emitted the last s entries of the
\* schedule are the day's: the first lies in [startTs + d*24h, + 6h], each
\* gap between two of them lies in [minBetweenHours, maxBetweenHours]
\* hours; when the day's loop is left their number lies in
\* minSessionsPerDay..maxSessionsPerDay, as it did for each day before.
C20_DayWithinBounds ==
    \A g \in starts :
        g.pc = "session"
            => LET n        == Len(g.schedule)
                   dayStart == g.startTs + g.day * DayMs
               IN  /\ g.s <= n
                   /\ g.s >= 1
                         => /\ g.schedule[n - g.s + 1] >= dayStart
                            /\ g.schedule[n - g.s + 1] <= dayStart + 6 * HourMs
                   /\ \A i \in (n - g.s + 2)..n :
                         /\ g.schedule[i] - g.schedule[i - 1]
                               >= g.cfg.minBetweenHours * HourMs
                         /\ g.schedule[i] - g.schedule[i - 1]
                               <= g.cfg.maxBetweenHours * HourMs
                   /\ g.s <= g.cfg.maxSessionsPerDay
                   /\ g.s = g.sessionCount => g.s >= g.cfg.minSessionsPerDay
                   /\ n - g.s >= g.day * g.cfg.minSessionsPerDay
                   /\ n - g.s <= g.day * g.cfg.maxSessionsPerDay

\* the second day of the source's parameters is complete with the most
\* sessions, a late first one and long gaps
C20_Witness ==
    \E g \in starts :
        /\ g.pc = "session"
        /\ g.cfg.minSessionsPerDay < g.cfg.maxSessionsPerDay
        /\ g.day = 1
        /\ g.s = g.sessionCount
        /\ g.s = g.cfg.maxSessionsPerDay
        /\ g.schedule[Len(g.schedule) - g.s + 1] > g.startTs + DayMs
        /\ g.schedule[Len(g.schedule)] - g.schedule[Len(g.schedule) - 1]
              > g.cfg.minBetweenHours * HourMs

\* C21: a start that has run to its end has registered one session alarm
\* for each entry of the schedule, named for the run, between days*min and
\* days*max of them, and one end alarm due at startTs + days*24h + 1 min.
C21_OneAlarmForEachEntry ==
    \A g \in starts :
        g.pc = "started"
            => LET runId   == RunPrefix \o Decimal(g.startTs)
                   session == {a \in alarms : StartsWith(a.name, SessionPrefix)}
                   end     == {a \in alarms : StartsWith(a.name, EndPrefix)}
               IN  /\ Cardinality(session) = Len(g.schedule)
                   /\ \A i \in 1..Len(g.schedule) :
                         [name |-> SessionAlarmName(runId, g.schedule[i]),
                          when |-> g.schedule[i]] \in session
                   /\ Cardinality(session) >= g.cfg.days * g.cfg.minSessionsPerDay
                   /\ Cardinality(session) <= g.cfg.days * g.cfg.maxSessionsPerDay
                   /\ end = {[name |-> EndAlarmName(runId),
                              when |-> g.startTs + g.cfg.days * DayMs + 60 * 1000]}

----------------------------------------------------------------------------
(* Properties of the run id (under Spec).                                   *)

\* C22: the run id a start or a startImmediate persists is fresh: it is not
\* the run id the store held before, and no registered alarm and no open
\* tab carries it.
C22_RunIdIsFresh ==
    [][( \/ \E userKeywords \in KeywordInputs : StartImmediateSessions(userKeywords)
         \/ \E s \in starts : StartBoostPersist(s) )
          => /\ store'.runId # store.runId
             /\ \A a \in alarms :
                   StartsWith(a.name, SessionPrefix)
                       => AlarmRunId(a.name) # store'.runId
             /\ \A t \in tabs : t.runId # store'.runId]_vars

----------------------------------------------------------------------------
(* Properties of a scheduled dispatch (under SpecScheduled).                *)

\* C23: a session alarm is dispatched at most once (it is no longer
\* registered when it fires, and its handler is gone when it has opened its
\* tab), and a dispatch that fails, the tab not created or content.js not
\* injected, calls appendLog once with an error entry and sets no timer and
\* opens no tab, neither at once nor when the entry has been written.
C23_FailedSlotLoggedOnce ==
    [][/\ \A a \in alarms : AlarmFire(a) => a \notin alarms'
       /\ \A h \in handlers :
             /\ TriggerSession(h) => (h \notin handlers' /\ nTabs' = nTabs + 1)
             /\ TriggerSessionNoTab(h)
                   => /\ Cardinality(appends' \ appends) = 1
                      /\ \A e \in appends' \ appends : ~e.entry.ok
                      /\ timeouts' = timeouts /\ tabs' = tabs
       /\ \A t \in tabs :
             (InjectFail(t) /\ t.mode = "scheduled")
                   => /\ Cardinality(appends' \ appends) = 1
                      /\ \A e \in appends' \ appends : ~e.entry.ok
                      /\ timeouts' = timeouts /\ tabs' = tabs \ {t}
       /\ \A e \in appends :
             (AppendLogWrite(e) /\ e.src = "dispatch")
                   => (timeouts' = timeouts /\ tabs' = tabs /\ nTabs' = nTabs)]_vars

----------------------------------------------------------------------------
(* Properties of a failed dispatch in immediate mode (under SpecDispatch).  *)

\* C24: an injection failure of an immediate session calls appendLog once
\* with an error entry; when the entry is written the retry timer of 30000
\* ms is set; and when that timer fires a session is dispatched only if the
\* run it was set for is still active.
C24_RetryOnlyWhileActive ==
    [][/\ \A t \in tabs :
             (InjectFail(t) /\ t.mode = "immediate")
                   => /\ Cardinality(appends' \ appends) = 1
                      /\ \A e \in appends' \ appends : ~e.entry.ok
       /\ \A e \in appends :
             (AppendLogWrite(e) /\ e.cont = "retry")
                   => \E t \in timeouts' \ timeouts :
                         t.delay = 30000 /\ t.runId = e.runId
       /\ \A t \in timeouts :
             (TimeoutFire(t) /\ t.src = "retry")
                   => (store.isRunning /\ store.runId = t.runId)]_vars

\* C25: a worker of a scheduled session that is lost before it has sent
\* its result is an error outcome for the dispatcher: an error entry is
\* handed to appendLog for it.  (No handler of the service worker runs for
\* the tab later on: the entry is due when the worker is lost.)
C25_LostWorkerIsLogged ==
    [][\A t \in tabs :
          (WorkerLost(t) /\ t.mode = "scheduled")
              => \E e \in appends' \ appends : e.tab = t.id /\ ~e.entry.ok]_vars

----------------------------------------------------------------------------
(* Properties of daysCompleted (under SpecResult and SpecDispatch).         *)

\* C26: when the third listener has handled a result during an active
\* scheduled run the store holds daysCompleted = min(days, floor((now -
\* startTs) / 24h) + 1); and daysCompleted is always within 0..days.
C26_DaysCompletedAfterResult ==
    [][\A r \in results :
          SessionResultWrite(r)
              => /\ (store.isRunning /\ store.immediateMode # "true")
                       => store'.daysCompleted =
                              Min(CONFIG.days, ((now - store.startTs) \div DayMs) + 1)
                 /\ store'.daysCompleted >= 0
                 /\ store'.daysCompleted <= CONFIG.days]_vars

\* a result was handled on the third day of an active scheduled run
C26_Witness ==
    /\ results = {}
    /\ store.isRunning /\ store.immediateMode # "true"
    /\ now - store.startTs >= 2 * DayMs /\ now - store.startTs < 3 * DayMs
    /\ store.daysCompleted = 3

\* C27: a result handled during an immediate run, or with no run active,
\* leaves the persisted daysCompleted as it is.
C27_DaysCompletedOnlyWhenScheduled ==
    [][\A r \in results :
          ( /\ SessionResultWrite(r)
            /\ (store.immediateMode = "true" \/ ~store.isRunning) )
              => store'.daysCompleted = store.daysCompleted]_vars

----------------------------------------------------------------------------
(* Properties of the keyword of a dispatch (under SpecDispatch).            *)

\* C28: while a run is active, the keyword of every startSession message is
\* an element of the run's persisted keyword list when that list is not
\* empty, and an element of the built-in default list otherwise.
C28_KeywordFromActiveRun ==
    (sent.status = "startSession" /\ store.isRunning)
        => LET list == IF store.keywords # <<>> /\ Len(store.keywords[1]) > 0
                       THEN store.keywords[1]
                       ELSE CONFIG.defaultKeywords
           IN  \E i \in 1..Len(list) : sent.keyword = list[i]

----------------------------------------------------------------------------
(* Properties of startImmediate (under Spec).                               *)

\* C29: startImmediate taken while no run is active persists isRunning =
\* true, immediate mode and a run id "immediate-..." that is not the one
\* persisted before, leaves the registered alarms and the pending timeouts
\* as they are, and opens exactly one tab, the first dispatch of that run.
C29_StartImmediateFromIdle ==
    [][\A userKeywords \in KeywordInputs :
          (StartImmediateSessions(userKeywords) /\ ~store.isRunning)
              => /\ store'.isRunning
                 /\ store'.immediateMode = "true"
                 /\ StartsWith(store'.runId, ImmediatePrefix)
                 /\ store'.runId # store.runId
                 /\ alarms' = alarms
                 /\ timeouts' = timeouts
                 /\ \E t \in tabs' \ tabs :
                       /\ tabs' = tabs \cup {t}
                       /\ t.mode = "immediate"
                       /\ t.runId = store'.runId
                       /\ t.phase = "opening"]_vars

\* startImmediate was the first message of an idle system: the run is
\* persisted and its first tab is open
C29_Witness ==
    /\ nCalls = 1
    /\ store.isRunning /\ store.immediateMode = "true"
    /\ StartsWith(store.runId, ImmediatePrefix)
    /\ alarms = {} /\ timeouts = {}
    /\ \E t \in tabs : tabs = {t} /\ t.mode = "immediate" /\ t.runId = store.runId

----------------------------------------------------------------------------
(* Properties of generateKeywords (under SpecSuggest).                      *)

\* C30: no step of a generateKeywords request (its arrival, its read of the
\* apiKey, its answer with keywords or with an error) changes the store
\* (isRunning, runId, immediateMode, keywords, startTs, daysCompleted, logs,
\* currentRun), the registered alarms or the pending timeouts.
C30_GenerateKeywordsNoEffect ==
    [][( \/ sent'.to = "generateKeywords"
         \/ {h \in handlers : h.pc \in GeneratePcs}
                # {h \in handlers' : h.pc \in GeneratePcs} )
          => /\ store' = store
             /\ alarms' = alarms
             /\ timeouts' = timeouts]_vars

\* keywords were answered while a run was active with alarms registered
C30_Witness ==
    /\ sent = Answer("generateKeywords", "keywords")
    /\ store.isRunning
    /\ store.keywords # <<>>
    /\ alarms # {}

\* C31: a generateKeywords request issues at most one fetch to the language
\* API, and none without a stored apiKey, in which case it answers an error.
C31_UpstreamInvokedAtMostOnce ==
    [][\A h \in handlers :
          /\ \A g \in handlers' : g.pc \in GeneratePcs => g.fetches <= 1
          /\ GenerateKeywordsKey(h, FALSE)
                => /\ sent' = Answer("generateKeywords", "error")
                   /\ \A g \in handlers' : g.pc \notin GeneratePcs]_vars

----------------------------------------------------------------------------
(* Properties of the persisted keywords (under SpecKeywords).               *)

\* C32: whenever a run is active the store holds a keyword list of 1 to 20
\* entries.
C32_ActiveRunHasKeywords ==
    store.isRunning
        => /\ store.keywords # <<>>
           /\ Len(store.keywords[1]) >= 1
           /\ Len(store.keywords[1]) <= 20

----------------------------------------------------------------------------
(* Properties of concurrent starts (under SpecStarts).                      *)

\* C33: with start requests only, also concurrent ones, the registered
\* alarms belong to at most one run id, and the persisted runId is that id.
C33_OneRunOfConcurrentStarts ==
    /\ Cardinality(AlarmRunIds) <= 1
    /\ alarms # {} => AlarmRunIds = {store.runId}

----------------------------------------------------------------------------
(* Properties of a stop during a start (under SpecStartStop).               *)

\* C34: when the store shows the stop of a start that is still in progress
\* (the start has persisted its run, a completed stop has written isRunning
\* = false and runId = null), the write-back of scheduleAlarmsForRun leaves
\* isRunning false and runId null, and no alarm of the run stays registered.
C34_StopNotUndoneByStart ==
    [][\A s \in starts :
          ( /\ StartBoostMetaWrite(s)
            /\ ~store.isRunning /\ store.runId = <<>>
            /\ stops = {} )
              => /\ ~store'.isRunning
                 /\ store'.runId = <<>>
                 /\ s.runId \notin AlarmRunIds']_vars

----------------------------------------------------------------------------
(* Properties of the schedule and the end alarm (under SpecSchedule).       *)

\* C35: every timestamp of the schedule generateSchedule returned is earlier
\* than the time of the run's end alarm, startTs + days * 24h + 60 s.
C35_SessionsBeforeEndAlarm ==
    \A g \in starts :
        g.pc \in {"return", "scheduled", "started"}
            => \A i \in 1..Len(g.schedule) :
                   g.schedule[i] < EndAlarmWhen(g.cfg, g.startTs)

----------------------------------------------------------------------------
(* Properties of the content script (under SpecWorkerLive).                 *)

====
